---- MODULE Spec2Model ----
(***************************************************************************)
(* Path playback of static/js/map.js: the click handler                    *)
(* fetchAndDisplayPath, the interval animation started by animatePath and  *)
(* the single shared timer handle animationInterval.                       *)
(*                                                                         *)
(* The page runs on one event loop: every action below is one run to       *)
(* completion of a piece of the script between two awaits or one firing    *)
(* of an interval callback.  A playback request is named by its click      *)
(* number r; the interval it starts (if any) is named by the same r, which *)
(* stands for the opaque, never reused id that setInterval returns.        *)
(***************************************************************************)
EXTENDS Integers, Sequences, FiniteSets, TLC

\* ---- bounds of the model ----
MaxRequests == 2        \* clicks on the show-path button
MaxLen == 3             \* longest location array the endpoint returns
MaxFits == 2            \* view.fit calls recorded per session
GridMax == 6            \* largest coordinate given to createSegmentStyle alone

\* ---- program constants ----
NoInterval == 0         \* animationInterval = null
HalfPi == 2             \* Math.PI / 2, angles being counted in units of pi/4

Requests == 1..MaxRequests

\* The endpoint's answer to request r: the first n fixes of the track that
\* request selects, for any n (the date range decides how many).  Fix k of
\* request r carries a timestamp no other fix carries and a position in
\* degrees; the track goes round the corners of a rectangle, one side per
\* fix, starting at a corner that depends on r.
Fix(r, k) ==
    LET n == (r + k) % 4
    IN  [timestamp |-> 10 * r + k,
         longitude |-> IF n \in {1, 2} THEN 90 ELSE 0,
         latitude  |-> IF n \in {2, 3} THEN 45 ELSE 0]

Track(r, n) == [k \in 1..n |-> Fix(r, k)]

\* What response.json() of request r may resolve to: an ordered array of
\* fixes that may be empty.
Responses(r) == { Track(r, n) : n \in 0..MaxLen }

\* ol.proj.fromLonLat: EPSG:4326 degrees to EPSG:3857 metres (rounded to
\* whole metres; the northing of the latitudes used is tabulated).
MercatorY(lat) ==
    CASE lat = 0  -> 0
      [] lat = 45 -> 5621521
      [] OTHER    -> 0

fromLonLat(lonLat) ==
    << (lonLat[1] * 20037508) \div 180, MercatorY(lonLat[2]) >>

VARIABLES
    animationInterval,  \* the shared handle: NoInterval or the id of an interval
    timers,             \* ids of the live intervals, the next one due first
    nreq,               \* number of clicks so far
    pc,                 \* per request: where its async function stands or ended
    alerted,            \* per request: the alert() it raised, or "none"
    locations,          \* per request: the array response.json() resolved to
    i,                  \* per session: the closure's counter
    allCoordinates,     \* per session: the closure's coordinate list
    vectorSource,       \* features of the vector source, in insertion order
    timelineUl,         \* <li> entries of the timeline, in order
    sessions,           \* ids of the sessions, in the order animatePath ran
    cmds,               \* per session: the map/timeline/view calls its ticks made
    completed,          \* sessions whose tick took the i >= length branch
    cancelled,          \* sessions whose live interval a click cleared
    selection,          \* groupId, startDate, endDate as the latest click read them
    response,           \* per request: how its fetch() settled
    ticks,              \* per session: firings of its interval callback so far
    styleGeometry,      \* createSegmentStyle called alone: its two coordinates
    styleRotation,      \*   the icon rotation it computed
    styleMidpoint,      \*   the midpoint it computed
    styleDone           \*   which of the two have been computed

playbackVars ==
    << animationInterval, timers, nreq, pc, alerted, locations, i,
       allCoordinates, vectorSource, timelineUl, sessions, cmds,
       completed, cancelled, selection, response, ticks >>

styleVars == << styleGeometry, styleRotation, styleMidpoint, styleDone >>

vars == << playbackVars, styleVars >>

\* The environment's list of active timers.  All intervals have the same
\* period (2000 ms), so the callbacks fire in the order the intervals were
\* last scheduled: the list is kept with the interval due next at its head.
Live(s) == \E n \in 1..Len(timers) : timers[n] = s

Without(q, id) == SelectSeq(q, LAMBDA x : x # id)

\* A clearInterval that stops nothing.
clearIntervalIgnored(live, id) == live

\* clearInterval(id): the environment stops firing that interval; an id that
\* is no longer live (or was never one) is ignored.
clearInterval(live, id) == Without(live, id)

\* setInterval(cb, 2000) for the session named id: due one period from now,
\* after every interval already scheduled.
setInterval(live, id) == Append(live, id)

\* The interval whose callback has just run is due again one period later.
reschedule(live, id) == IF Live(id) THEN Append(Without(live, id), id) ELSE live

InitPlayback ==
    /\ animationInterval = NoInterval
    /\ timers = <<>>
    /\ nreq = 0
    /\ pc = [r \in Requests |-> "idle"]
    /\ alerted = [r \in Requests |-> "none"]
    /\ locations = [r \in Requests |-> <<>>]
    /\ i = [r \in Requests |-> 0]
    /\ allCoordinates = [r \in Requests |-> <<>>]
    /\ vectorSource = <<>>
    /\ timelineUl = <<>>
    /\ sessions = <<>>
    /\ cmds = [r \in Requests |-> <<>>]
    /\ completed = {}
    /\ cancelled = {}
    /\ selection = [groupId |-> FALSE, startDate |-> FALSE, endDate |-> FALSE]
    /\ response = [r \in Requests |-> "none"]
    /\ ticks = [r \in Requests |-> 0]

\* ---- createSegmentStyle ----
\* Numbers are whole; a halved number is kept as a reduced fraction.
Half(x) ==
    IF x % 2 = 0 THEN [num |-> x \div 2, den |-> 1] ELSE [num |-> x, den |-> 2]

\* An atan2 that takes the zero vector for a vector pointing in -x.
Atan2ZeroAsPi(dy, dx) ==
    CASE dy = 0 /\ dx > 0   -> 0
      [] dy = 0 /\ dx <= 0  -> 4
      [] dx = 0 /\ dy > 0   -> 2
      [] dx = 0 /\ dy < 0   -> -2
      [] dy = dx /\ dx > 0  -> 1
      [] dy = -dx /\ dx < 0 -> 3
      [] dy = dx /\ dx < 0  -> -3
      [] dy = -dx /\ dx > 0 -> -1

\* Math.atan2(dy, dx) in units of pi/4, on the vectors where it is a whole
\* number of them: the zero vector (result +0), the four axis directions and
\* the four diagonals.
Atan2(dy, dx) ==
    CASE dy = 0 /\ dx >= 0  -> 0
      [] dy = 0 /\ dx < 0   -> 4
      [] dx = 0 /\ dy > 0   -> 2
      [] dx = 0 /\ dy < 0   -> -2
      [] dy = dx /\ dx > 0  -> 1
      [] dy = -dx /\ dx < 0 -> 3
      [] dy = dx /\ dx < 0  -> -3
      [] dy = -dx /\ dx > 0 -> -1

\* The vectors Atan2 is tabulated on.
ExactDirection(start, end) ==
    LET dx == end[1] - start[1]
        dy == end[2] - start[2]
    IN  dx = 0 \/ dy = 0 \/ dx = dy \/ dx = -dy

\* A rotation that hands atan2 its arguments in the wrong order.
arrowRotationSwapped(start, end) ==
    LET dx == end[1] - start[1]
        dy == end[2] - start[2]
    IN  -Atan2(dx, dy) + HalfPi

\* rotation: -rotation + Math.PI / 2, with rotation = Math.atan2(dy, dx)
arrowRotation(start, end) ==
    LET dx == end[1] - start[1]
        dy == end[2] - start[2]
    IN  -Atan2(dy, dx) + HalfPi

\* A midpoint that subtracts instead of adding.
segmentMidpointOfDifference(start, end) ==
    << Half(start[1] - end[1]), Half(start[2] - end[2]) >>

\* midpoint = [(start[0] + end[0]) / 2, (start[1] + end[1]) / 2]
segmentMidpoint(start, end) ==
    << Half(start[1] + end[1]), Half(start[2] + end[2]) >>

\* The arrow style of the two styles returned: where the icon is put and how
\* it is turned.
createSegmentStyle(geometry) ==
    [midpoint |-> segmentMidpoint(geometry[1], geometry[2]),
     rotation |-> arrowRotation(geometry[1], geometry[2])]

Init ==
    /\ InitPlayback
    /\ styleGeometry = << <<0, 0>>, <<0, 0>> >>
    /\ styleRotation = 0
    /\ styleMidpoint = << Half(0), Half(0) >>
    /\ styleDone = {}

\* A selection test that looks at the group only.
missingSelectionGroupOnly(groupId, startDate, endDate) == ~groupId

\* if (!groupId || !startDate || !endDate)
missingSelection(groupId, startDate, endDate) ==
    ~groupId \/ ~startDate \/ ~endDate

\* fetchAndDisplayPath up to its first await: stop the tracked interval, clear
\* the map and the timeline, validate the selection, issue the fetch.
\* The three inputs say whether each form field holds a value.
Click(groupId, startDate, endDate) ==
    /\ nreq < MaxRequests
    /\ LET r == nreq + 1 IN
       /\ nreq' = r
       /\ timers' = IF animationInterval # NoInterval
                    THEN clearInterval(timers, animationInterval)
                    ELSE timers
       /\ cancelled' = IF animationInterval # NoInterval /\ Live(animationInterval)
                       THEN cancelled \cup {animationInterval}
                       ELSE cancelled
       /\ vectorSource' = <<>>
       /\ timelineUl' = <<>>
       /\ IF missingSelection(groupId, startDate, endDate)
          THEN /\ alerted' = [alerted EXCEPT ![r] = "missing"]
               /\ pc' = [pc EXCEPT ![r] = "return90"]
               /\ response' = response
          ELSE /\ alerted' = alerted
               /\ pc' = [pc EXCEPT ![r] = "fetch"]
               /\ response' = [response EXCEPT ![r] = "pending"]
    /\ selection' = [groupId |-> groupId, startDate |-> startDate, endDate |-> endDate]
    /\ UNCHANGED << animationInterval, locations, i, allCoordinates, sessions,
                    cmds, completed, ticks >>
    /\ UNCHANGED styleVars

\* A success test that never looks at response.ok.
fetchSucceededUnchecked(fulfilled, ok) == fulfilled

\* The try block goes past line 97 when fetch() fulfilled and response.ok holds.
fetchSucceeded(fulfilled, ok) == fulfilled /\ ok

\* await fetch(...) settles: rejected (network error) or a response whose ok
\* flag is false both end in the catch block; an ok response goes on to .json().
FetchSettles(r, fulfilled, ok) ==
    /\ pc[r] = "fetch"
    /\ response' = [response EXCEPT ![r] =
                      IF ~fulfilled THEN "rejected" ELSE IF ok THEN "ok" ELSE "notok"]
    /\ IF fetchSucceeded(fulfilled, ok)
       THEN /\ pc' = [pc EXCEPT ![r] = "json"]
            /\ alerted' = alerted
       ELSE /\ pc' = [pc EXCEPT ![r] = "caught"]
            /\ alerted' = [alerted EXCEPT ![r] = "failed"]
    /\ UNCHANGED << animationInterval, timers, nreq, locations, i, allCoordinates,
                    vectorSource, timelineUl, sessions, cmds, completed, cancelled,
                    selection, ticks >>
    /\ UNCHANGED styleVars

\* An emptiness test that never fires.
isEmptyNever(locs) == FALSE

\* if (locations.length === 0)
isEmpty(locs) == Len(locs) = 0

\* await response.json() rejects: the catch block alerts.
JsonRejects(r) ==
    /\ pc[r] = "json"
    /\ pc' = [pc EXCEPT ![r] = "caught"]
    /\ alerted' = [alerted EXCEPT ![r] = "failed"]
    /\ UNCHANGED << animationInterval, timers, nreq, locations, i, allCoordinates,
                    vectorSource, timelineUl, sessions, cmds, completed, cancelled,
                    selection, response, ticks >>
    /\ UNCHANGED styleVars

\* await response.json() resolves to locs: alert and return on an empty
\* array, else animatePath(locs): fresh closure (i = 0, allCoordinates = []),
\* and the shared handle is overwritten with the new interval's id.
JsonResolves(r, locs) ==
    /\ pc[r] = "json"
    /\ locations' = [locations EXCEPT ![r] = locs]
    /\ IF isEmpty(locs)
       THEN /\ alerted' = [alerted EXCEPT ![r] = "nodata"]
            /\ pc' = [pc EXCEPT ![r] = "return101"]
            /\ UNCHANGED << animationInterval, timers, i, allCoordinates, sessions >>
       ELSE /\ alerted' = alerted
            /\ pc' = [pc EXCEPT ![r] = "animating"]
            /\ i' = [i EXCEPT ![r] = 0]
            /\ allCoordinates' = [allCoordinates EXCEPT ![r] = <<>>]
            /\ timers' = setInterval(timers, r)
            /\ animationInterval' = r
            /\ sessions' = Append(sessions, r)
    /\ UNCHANGED << nreq, vectorSource, timelineUl, cmds, completed, cancelled,
                    selection, response, ticks >>
    /\ UNCHANGED styleVars

\* A segment test that skips the second fix as well.
hasPreviousFromSecond(k) == k > 1

\* if (i > 0): a segment is drawn for every fix but the first.
hasPrevious(k) == k > 0

pointFeature(s, k, coord, loc) ==
    [type |-> "point", geometry |-> <<coord>>, timestamp |-> loc.timestamp,
     owner |-> s, index |-> k]

\* A segment drawn from the new fix back to the previous one.
segmentFeatureReversed(s, k, prevCoord, coord) ==
    [type |-> "path-segment", geometry |-> <<coord, prevCoord>>, timestamp |-> 0,
     style |-> createSegmentStyle(<<coord, prevCoord>>),
     owner |-> s, index |-> k]

segmentFeature(s, k, prevCoord, coord) ==
    [type |-> "path-segment", geometry |-> <<prevCoord, coord>>, timestamp |-> 0,
     style |-> createSegmentStyle(<<prevCoord, coord>>),
     owner |-> s, index |-> k]

timelineItem(s, k, loc) ==
    [text |-> loc.timestamp, owner |-> s, index |-> k]

\* A completion test that fires one fix early.
isCompleteEarly(k, n) == k + 1 >= n

\* if (i >= locations.length)
isComplete(k, n) == k >= n

\* A counter step that skips a fix.
advanceByTwo(k) == k + 2

\* i++
advance(k) == k + 1

FitCount(s) == Cardinality({ n \in 1..Len(cmds[s]) : cmds[s][n].op = "fitToBounds" })

\* The interval callback, branch i >= locations.length: clear the interval
\* the shared handle names, fit the view if the source holds any feature.
TickComplete(s) ==
    /\ timers # <<>> /\ s = Head(timers)
    /\ isComplete(i[s], Len(locations[s]))
    /\ FitCount(s) < MaxFits
    /\ ticks[s] < Len(locations[s]) + MaxFits
    /\ ticks' = [ticks EXCEPT ![s] = @ + 1]
    /\ timers' = clearInterval(reschedule(timers, s), animationInterval)
    /\ cmds' = IF Len(vectorSource) > 0
               THEN [cmds EXCEPT ![s] = Append(@, [op |-> "fitToBounds", index |-> i[s]])]
               ELSE cmds
    /\ completed' = completed \cup {s}
    /\ UNCHANGED << animationInterval, nreq, pc, alerted, locations, i,
                    allCoordinates, vectorSource, timelineUl, sessions, cancelled,
                    selection, response >>
    /\ UNCHANGED styleVars

\* The interval callback, branch i < locations.length: reveal fix i.
TickReveal(s) ==
    /\ timers # <<>> /\ s = Head(timers)
    /\ ~isComplete(i[s], Len(locations[s]))
    /\ LET k == i[s]
           loc == locations[s][k + 1]
           transformedCoord == fromLonLat(<<loc.longitude, loc.latitude>>)
           coords == Append(allCoordinates[s], transformedCoord)
           prevCoord == coords[k]          \* allCoordinates[i - 1], 0-based
           seg == hasPrevious(k)
       IN
       /\ allCoordinates' = [allCoordinates EXCEPT ![s] = coords]
       /\ vectorSource' =
            IF seg
            THEN vectorSource \o << pointFeature(s, k, transformedCoord, loc),
                                    segmentFeature(s, k, prevCoord, transformedCoord) >>
            ELSE Append(vectorSource, pointFeature(s, k, transformedCoord, loc))
       /\ timelineUl' = Append(timelineUl, timelineItem(s, k, loc))
       /\ cmds' = [cmds EXCEPT ![s] =
                    @ \o << [op |-> "addPoint", index |-> k],
                            [op |-> "appendEntry", index |-> k] >>
                      \o (IF seg THEN << [op |-> "addSegment", index |-> k] >> ELSE <<>>)
                      \o << [op |-> "centerOn", index |-> k] >>]
       /\ i' = [i EXCEPT ![s] = advance(k)]
    /\ ticks' = [ticks EXCEPT ![s] = @ + 1]
    /\ timers' = reschedule(timers, s)
    /\ UNCHANGED << animationInterval, nreq, pc, alerted, locations,
                    sessions, completed, cancelled, selection, response >>
    /\ UNCHANGED styleVars

Next ==
    \/ \E groupId, startDate, endDate \in BOOLEAN : Click(groupId, startDate, endDate)
    \/ \E r \in Requests, fulfilled, ok \in BOOLEAN : FetchSettles(r, fulfilled, ok)
    \/ \E r \in Requests : JsonRejects(r)
    \/ \E r \in Requests : \E locs \in Responses(r) : JsonResolves(r, locs)
    \/ \E s \in Requests : TickComplete(s)
    \/ \E s \in Requests : TickReveal(s)

Spec == Init /\ [][Next]_vars

\* ---- createSegmentStyle on its own ----
Grid == 0..GridMax

\* The rotation of the arrow for the segment given.
ComputeRotation ==
    /\ "rotation" \notin styleDone
    /\ ExactDirection(styleGeometry[1], styleGeometry[2])
    /\ styleRotation' = createSegmentStyle(styleGeometry).rotation
    /\ styleDone' = styleDone \cup {"rotation"}
    /\ UNCHANGED << styleGeometry, styleMidpoint, playbackVars >>

\* The midpoint of the segment given.
ComputeMidpoint ==
    /\ "midpoint" \notin styleDone
    /\ styleMidpoint' = segmentMidpoint(styleGeometry[1], styleGeometry[2])
    /\ styleDone' = styleDone \cup {"midpoint"}
    /\ UNCHANGED << styleGeometry, styleRotation, playbackVars >>

StyleInit ==
    /\ InitPlayback
    /\ styleGeometry \in { << <<x1, y1>>, <<x2, y2>> >> : x1 \in Grid, y1 \in Grid,
                                                        x2 \in Grid, y2 \in Grid }
    /\ styleRotation = 0
    /\ styleMidpoint = << Half(0), Half(0) >>
    /\ styleDone = {}

StyleNext == ComputeRotation \/ ComputeMidpoint

StyleSpec == StyleInit /\ [][StyleNext]_vars

TypeOK ==
    /\ animationInterval \in {NoInterval} \cup Requests
    /\ \A n \in 1..Len(timers) : timers[n] \in Requests
    /\ \A m, n \in 1..Len(timers) : timers[m] = timers[n] => m = n
    /\ nreq \in 0..MaxRequests
    /\ \A r \in Requests : i[r] \in 0..Len(locations[r])

\* ---------------------------------------------------------------------------
\* Properties
\* ---------------------------------------------------------------------------

Started(s) == \E n \in 1..Len(sessions) : sessions[n] = s

\* Positions in session s's call log of the call op for fix index k.
Calls(s, op, k) ==
    { n \in 1..Len(cmds[s]) : cmds[s][n].op = op /\ cmds[s][n].index = k }

CallCount(s, op) ==
    Cardinality({ n \in 1..Len(cmds[s]) : cmds[s][n].op = op })

Only(S) == CHOOSE x \in S : TRUE

\* C1: every request fully supersedes the prior animation: once a later
\* session has started no earlier session's interval is still live, and the
\* features on the map never come from two different sessions.
C1_RequestSupersedesPrior ==
    /\ \A s \in Requests : Live(s) => s = sessions[Len(sessions)]
    /\ \A a, b \in 1..Len(vectorSource) : vectorSource[a].owner = vectorSource[b].owner

\* C2: at most one session has a live interval at any time.
C2_AtMostOnePlaying == Len(timers) <= 1

\* C3: a session that ran to completion issued exactly N addPoint and N-1
\* addSegment calls, point k before point k+1 and the segment ending at fix k
\* after point k and before point k+1.
C3_CompletedPlaybackCalls ==
    \A s \in completed :
        LET N == Len(locations[s]) IN
        /\ CallCount(s, "addPoint") = N
        /\ CallCount(s, "addSegment") = N - 1
        /\ \A k \in 0..(N - 1) : Cardinality(Calls(s, "addPoint", k)) = 1
        /\ \A k \in 1..(N - 1) :
              /\ Cardinality(Calls(s, "addSegment", k)) = 1
              /\ Only(Calls(s, "addPoint", k - 1)) < Only(Calls(s, "addPoint", k))
              /\ Only(Calls(s, "addPoint", k)) < Only(Calls(s, "addSegment", k))
              /\ k < N - 1 =>
                    Only(Calls(s, "addSegment", k)) < Only(Calls(s, "addPoint", k + 1))

C3_Witness ==
    \E s \in completed : Len(locations[s]) >= 2 /\ ~Live(s)

\* C4: a session whose live interval a click has cleared makes no further
\* call, whatever happens afterwards.
C4_NoCallsAfterCancel ==
    [][\A s \in cancelled : cmds'[s] = cmds[s]]_vars

C4_Witness ==
    \E s \in cancelled :
        /\ i[s] > 0
        /\ i[s] < Len(locations[s])
        /\ \E t \in Requests : t # s /\ i[t] > 0

\* C5: once a second request has been made, everything on the map and in the
\* timeline comes from the latest request's fix list only.
C5_OnlyLatestRequestOnMap ==
    nreq >= 2 =>
        /\ \A n \in 1..Len(vectorSource) : vectorSource[n].owner = nreq
        /\ \A n \in 1..Len(timelineUl) : timelineUl[n].owner = nreq

\* C6: when the latest request ended in a reported error, the map and the
\* timeline are cleared and no animation is running.
C6_ErrorLeavesCleared ==
    (nreq >= 1 /\ alerted[nreq] # "none") =>
        /\ timers = <<>>
        /\ vectorSource = <<>>
        /\ timelineUl = <<>>

\* C7: a session's interval stops being live only in a step that is a new
\* request or that session's own first completion tick.
C7_ReleasedOnlyByOwnCompletionOrRequest ==
    [][\A s \in Requests :
          (Live(s) /\ ~Live(s)') =>
              \/ nreq' = nreq + 1
              \/ (s \notin completed /\ s \in completed')]_vars

\* C8: a session that has taken its completion tick has no live interval any
\* more and has issued fitToBounds at most once.
C8_CompletionStopsOwnTimer ==
    \A s \in completed : ~Live(s) /\ CallCount(s, "fitToBounds") <= 1

\* C9: a started session whose interval is no longer live was either
\* cancelled by a later request or has completed with all its fixes revealed.
C9_StopsOnlyCompletedOrCancelled ==
    \A s \in Requests :
        (Started(s) /\ ~Live(s)) =>
            \/ s \in cancelled
            \/ (s \in completed /\ i[s] = Len(locations[s]))

\* C10: a request whose fix list came back empty raised the "no data" alert,
\* started no session and no interval, and made no map, timeline or view call.
C10_EmptyResultNoSession ==
    \A r \in Requests :
        (pc[r] \in {"return101", "animating"} /\ Len(locations[r]) = 0) =>
            /\ alerted[r] = "nodata"
            /\ ~Started(r)
            /\ ~Live(r)
            /\ animationInterval # r
            /\ cmds[r] = <<>>
            /\ \A n \in 1..Len(vectorSource) : vectorSource[n].owner # r

C10_Witness ==
    \E r \in Requests :
        /\ pc[r] \in {"return101", "animating"}
        /\ Len(locations[r]) = 0
        /\ \E t \in Requests : Started(t)

\* C11: a fetch that did not succeed raises the "fetch failed" alert and
\* starts no session; an empty array raises the "no data" alert; a request
\* that ended in one of the two never carries the other one's alert.
C11_FetchFailedDistinctFromNoData ==
    \A r \in Requests :
        /\ response[r] \in {"rejected", "notok"} =>
              /\ pc[r] = "caught"
              /\ alerted[r] = "failed"
              /\ ~Started(r)
              /\ locations[r] = <<>>
        /\ alerted[r] = "failed" =>
              /\ pc[r] = "caught"
              /\ ~Started(r)
        /\ alerted[r] = "nodata" =>
              /\ pc[r] = "return101"
              /\ response[r] = "ok"
              /\ Len(locations[r]) = 0
        /\ (pc[r] \in {"return101", "animating"} /\ Len(locations[r]) = 0) =>
              alerted[r] = "nodata"

C11_Witness ==
    \E r, t \in Requests :
        /\ response[r] = "notok" /\ alerted[r] = "failed"
        /\ alerted[t] = "nodata"

\* C12: a click that finds the group, the start date or the end date missing
\* alerts and returns at once: it issues no fetch and never starts a session,
\* yet it leaves the tracked interval stopped and the map and timeline empty.
C12_MissingSelectionBeforeFetch ==
    [][/\ (/\ nreq' = nreq + 1
           /\ (~selection'.groupId \/ ~selection'.startDate \/ ~selection'.endDate)) =>
              /\ pc'[nreq'] = "return90"
              /\ alerted'[nreq'] = "missing"
              /\ response'[nreq'] = "none"
              /\ vectorSource' = <<>>
              /\ timelineUl' = <<>>
              /\ \A n \in 1..Len(timers') : timers'[n] # animationInterval'
       /\ \A r \in Requests :
              pc[r] = "return90" =>
                  /\ pc'[r] = "return90"
                  /\ response'[r] = "none"
                  /\ \A n \in 1..Len(sessions') : sessions'[n] # r]_vars

C12_Witness ==
    /\ nreq >= 2
    /\ pc[nreq] = "return90"
    /\ ~selection.startDate
    /\ \E s \in cancelled : i[s] > 0

\* C13: a session's counter stays within 0..N, every step leaves it alone or
\* adds exactly one, it is N once the session has completed, and no call is
\* ever made for a fix index outside 0..N-1.
C13_RevealedCountStepsByOne ==
    [][\A s \in Requests :
          /\ i'[s] \in 0..Len(locations'[s])
          /\ i'[s] = i[s] \/ i'[s] = i[s] + 1
          /\ s \in completed' => i'[s] = Len(locations'[s])
          /\ \A n \in 1..Len(cmds'[s]) :
                cmds'[s][n].op # "fitToBounds" =>
                    cmds'[s][n].index \in 0..(Len(locations'[s]) - 1)]_vars

C13_Witness ==
    \E s \in completed : i[s] = Len(locations[s]) /\ i[s] >= 3

\* C14: a firing of the callback of a session with fixes left reveals exactly
\* one fix, fix i of that session's list: addPoint, appendEntry, addSegment
\* only when i > 0, centerOn, in that order; the point lies at the projected
\* fix and the segment runs from projected fix i-1 to projected fix i.
C14_TickRevealsOneFix ==
    [][\A s \in Requests :
          (ticks'[s] # ticks[s] /\ i[s] < Len(locations[s])) =>
              LET k == i[s]
                  fix == locations[s][k + 1]
                  c == fromLonLat(<<fix.longitude, fix.latitude>>)
                  base == Len(vectorSource)
              IN
              /\ i'[s] = k + 1
              /\ cmds'[s] = cmds[s]
                    \o << [op |-> "addPoint", index |-> k],
                          [op |-> "appendEntry", index |-> k] >>
                    \o (IF k > 0 THEN << [op |-> "addSegment", index |-> k] >> ELSE <<>>)
                    \o << [op |-> "centerOn", index |-> k] >>
              /\ timelineUl' = Append(timelineUl,
                                      [text |-> fix.timestamp, owner |-> s, index |-> k])
              /\ Len(vectorSource') = base + (IF k > 0 THEN 2 ELSE 1)
              /\ SubSeq(vectorSource', 1, base) = vectorSource
              /\ vectorSource'[base + 1].type = "point"
              /\ vectorSource'[base + 1].geometry = <<c>>
              /\ vectorSource'[base + 1].timestamp = fix.timestamp
              /\ k > 0 =>
                    LET prev == locations[s][k]
                    IN  /\ vectorSource'[base + 2].type = "path-segment"
                        /\ vectorSource'[base + 2].owner = s
                        /\ vectorSource'[base + 2].geometry =
                              << fromLonLat(<<prev.longitude, prev.latitude>>), c >>]_vars

C14_Witness ==
    \E s \in Requests :
        /\ i[s] >= 2
        /\ \E n \in 1..Len(vectorSource) :
              vectorSource[n].type = "path-segment" /\ vectorSource[n].owner = s

Points == { n \in 1..Len(vectorSource) : vectorSource[n].type = "point" }

Segments == { n \in 1..Len(vectorSource) : vectorSource[n].type = "path-segment" }

\* C15: the timeline lists the timestamps of the first fixes of one session's
\* list, in order; the map holds as many points as the timeline has entries
\* and one segment fewer than points (none when there is no point).
C15_TrailAndTimelineInStep ==
    /\ Cardinality(Points) = Len(timelineUl)
    /\ Cardinality(Segments) =
          (IF Cardinality(Points) = 0 THEN 0 ELSE Cardinality(Points) - 1)
    /\ \/ timelineUl = <<>>
       \/ \E s \in Requests :
             /\ Len(timelineUl) <= Len(locations[s])
             /\ \A n \in 1..Len(timelineUl) :
                   timelineUl[n].text = locations[s][n].timestamp

\* C16 as stated: a segment whose two ends coincide gets rotation 0.
C16_DegenerateRotationZero ==
    (styleGeometry[1] = styleGeometry[2] /\ "rotation" \in styleDone) =>
        styleRotation = 0

\* C16, amended: a segment whose two ends coincide gets the rotation pi/2
\* (the angle is 0, the offset pi/2 is still added) and its midpoint is the
\* point itself; both are computed without error.
C16_DegenerateRotationHalfPi ==
    styleGeometry[1] = styleGeometry[2] =>
        /\ "rotation" \in styleDone => styleRotation = 2
        /\ "midpoint" \in styleDone =>
              styleMidpoint = << [num |-> styleGeometry[1][1], den |-> 1],
                                 [num |-> styleGeometry[1][2], den |-> 1] >>

C16_Witness ==
    /\ styleGeometry[1] = styleGeometry[2]
    /\ styleDone = {"rotation", "midpoint"}

\* C17: the rotation is pi/2 for travel in +x and 0 for travel in +y (and,
\* by the same formula, -pi/2 for travel in -x and pi for travel in -y).
C17_RotationByDirection ==
    "rotation" \in styleDone =>
        LET dx == styleGeometry[2][1] - styleGeometry[1][1]
            dy == styleGeometry[2][2] - styleGeometry[1][2]
        IN  /\ (dy = 0 /\ dx > 0) => styleRotation = 2
            /\ (dx = 0 /\ dy > 0) => styleRotation = 0
            /\ (dy = 0 /\ dx < 0) => styleRotation = -2
            /\ (dx = 0 /\ dy < 0) => styleRotation = 4

C17_Witness ==
    /\ styleGeometry = << <<0, 0>>, <<1, 0>> >>
    /\ "rotation" \in styleDone
    /\ styleRotation = 2

\* C18: each component of the midpoint is the mean of the two ends'
\* components; for (2,2) and (4,6) it is (3,4).
C18_MidpointIsMean ==
    "midpoint" \in styleDone =>
        /\ \A c \in 1..2 :
              /\ styleMidpoint[c].den \in {1, 2}
              /\ 2 * styleMidpoint[c].num =
                    styleMidpoint[c].den * (styleGeometry[1][c] + styleGeometry[2][c])
        /\ styleGeometry = << <<2, 2>>, <<4, 6>> >> =>
              styleMidpoint = << [num |-> 3, den |-> 1], [num |-> 4, den |-> 1] >>

C18_Witness ==
    /\ styleGeometry = << <<2, 2>>, <<4, 6>> >>
    /\ "midpoint" \in styleDone

\* C19: once every request has been answered, the shared handle names the
\* session of the latest request (if that request started one).
C19_HandleTracksLatestRequest ==
    (/\ nreq >= 1
     /\ Started(nreq)
     /\ \A r \in Requests : pc[r] \notin {"fetch", "json"}) =>
        animationInterval = nreq

\* C20: the step that starts a session makes no call and shows nothing; the
\* first fix appears on the session's first firing; the session completes on
\* firing N+1, and that firing reveals nothing.
C20_CompletesOnTickNPlusOne ==
    [][\A s \in Requests :
          /\ (~Started(s) /\ sessions' = Append(sessions, s)) =>
                /\ cmds'[s] = <<>>
                /\ i'[s] = 0
                /\ ticks'[s] = 0
                /\ vectorSource' = vectorSource
                /\ timelineUl' = timelineUl
          /\ (i[s] = 0 /\ i'[s] > 0) => (ticks[s] = 0 /\ ticks'[s] = 1)
          /\ (s \notin completed /\ s \in completed') =>
                /\ ticks'[s] = Len(locations[s]) + 1
                /\ i'[s] = i[s]
                /\ vectorSource' = vectorSource
                /\ timelineUl' = timelineUl
                /\ \/ cmds'[s] = cmds[s]
                   \/ cmds'[s] = Append(cmds[s], [op |-> "fitToBounds", index |-> i[s]])]_vars

C20_Witness ==
    \E s \in completed :
        /\ ticks[s] = Len(locations[s]) + 1
        /\ Len(locations[s]) >= 2
        /\ CallCount(s, "fitToBounds") = 1
====
